---- MODULE Spec2Model ----
(***************************************************************************)
(* StaticMap (src/src/map.rs): the render pipeline of a static map image.  *)
(* A StaticMap holds a URL template, an append-only list of tools, a view  *)
(* configuration and a shared tile cache.  render() resolves the view      *)
(* window, allocates the canvas, fetches the tiles of the window on a      *)
(* worker pool (cache lookup, then GET + decode under retry::retry), blits *)
(* the tiles and draws the tools.                                          *)
(***************************************************************************)
EXTENDS Integers, Sequences, FiniteSets, TLC

\* ------------------------------------------------------------------ bounds
MaxZoom    == 1    \* zoom levels 0..MaxZoom of the rendered windows
MaxTiles   == 2    \* a rendered window holds at most MaxTiles tiles
MaxTools   == 2    \* add_tool is called at most MaxTools times
MaxRenders == 2    \* render is called at most MaxRenders times
UrlCoord   == 4    \* x_min, y_min of the windows of SpecUrl lie in -UrlCoord..UrlCoord

\* ------------------------------------------------------- program constants
RetryDelays == 5   \* Fixed::from_millis(1000).take(5): the delay iterator yields 5 delays
NumThreads  == 24  \* ThreadPoolBuilder::new().num_threads(24)
DefaultSize == 300 \* StaticMapBuilder::default(): width, height

ToolKinds == {"A", "B"}
Sizes     == {0, DefaultSize}

\* ------------------------------------------------------------- the values
\* Option<u8>: zoom of the builder
NoneZoom    == [some |-> FALSE, v |-> 0]
SomeZoom(z) == [some |-> TRUE, v |-> z]

NoUrl    == <<>>
NoPixmap == [url |-> NoUrl, status |-> 0]
NoBounds == [set |-> FALSE, zoom |-> 0, x_min |-> 0, x_max |-> 0, y_min |-> 0,
             y_max |-> 0, width |-> 0, height |-> 0]

\* What one HTTP GET can come back with: a transport error, or a response with
\* a status and a body that is a PNG or not.
Responses ==
  { [transport |-> TRUE,  status |-> 0,   png |-> FALSE],
    [transport |-> FALSE, status |-> 200, png |-> TRUE],
    [transport |-> FALSE, status |-> 200, png |-> FALSE],
    [transport |-> FALSE, status |-> 404, png |-> TRUE],
    [transport |-> FALSE, status |-> 404, png |-> FALSE] }
NoResponse == [transport |-> FALSE, status |-> 0, png |-> FALSE]
\* a server that answers every GET with 200 and the tile's PNG
Reliable   == { [transport |-> FALSE, status |-> 200, png |-> TRUE] }
\* a server that answers a GET with 200 and the tile's PNG, or not at all
Flaky      == Reliable \cup { r \in Responses : r.transport }

\* Result<Pixmap, Error> of one tile, and Result<Pixmap> of render
Pending      == [st |-> "pending", pix |-> NoPixmap, err |-> "", url |-> NoUrl]
OkTile(p)    == [st |-> "ok", pix |-> p, err |-> "", url |-> NoUrl]
ErrTile(e,u) == [st |-> "err", pix |-> NoPixmap, err |-> e, url |-> u]

NoResult        == [kind |-> "none", url |-> NoUrl, image |-> <<>>]
Running         == [kind |-> "running", url |-> NoUrl, image |-> <<>>]
Panicked        == [kind |-> "Panic", url |-> NoUrl, image |-> <<>>]
ErrResult(e, u) == [kind |-> e, url |-> u, image |-> <<>>]
OkResult(img)   == [kind |-> "Ok", url |-> NoUrl, image |-> img]

VARIABLES
  cfg,          \* StaticMap.bounds: the BoundsBuilder (zoom, width, height)
  tools,        \* StaticMap.tools: Vec<Box<dyn Tool>>
  tile_cache,   \* StaticMap.tile_cache: Arc<DashMap<String, Pixmap>>
  pc,           \* where the caller is: idle, acquire, blit, tools (listed in SpecUrl)
  bounds,       \* render: the Bounds the builder resolved
  tiles,        \* draw_base_layer: Vec<(i32, i32, String)>
  wpc,          \* per tile of the par_iter: queued, retry, done
  tries,        \* per tile: current_try of retry::retry while it runs, else 0
  tile_images,  \* draw_base_layer: Vec<Result<Pixmap, Error>>
  image,        \* render: the canvas, as the sequence of things drawn on it
  result,       \* what the last render call returned
  renders,      \* number of render calls made
  gets,         \* the tile server's request log: the URLs requested, once or again
  last_resp,    \* per tile: the response to the try that ended its retry loop
  dup_urls,     \* URLs that some render's tile list held more than once
  server,       \* the responses the tile server can give
  calls,        \* how many times the caller calls render
  prev,         \* the render call before the latest: what it returned, for which bounds
  calc          \* SpecZoom: the i32 arithmetic of one tile index

vars == <<cfg, tools, tile_cache, pc, bounds, tiles, wpc, tries, tile_images,
          image, result, renders, gets, last_resp, dup_urls, server,
          calls, prev, calc>>

\* --------------------------------------------------------------- integers
RECURSIVE Pow2(_)
Pow2(n) == IF n = 0 THEN 1 ELSE 2 * Pow2(n - 1)

\* i32 and u8: the largest values
I32Max == 2147483647
U8Max  == 255

\* the outcome of an i32 operation: the value, or that it does not fit
I32(v)   == [ok |-> TRUE, v |-> v]
Overflow == [ok |-> FALSE, v |-> 0]

\* a * b on i32, for outcomes a, b that are not negative
I32Mul(a, b) ==
  IF ~a.ok \/ ~b.ok THEN Overflow
  ELSE IF a.v > 0 /\ b.v > I32Max \div a.v THEN Overflow
  ELSE I32(a.v * b.v)

\* the loop of i32::pow, by squaring:
\*   while exp > 1 { if exp & 1 == 1 { acc = acc * base }; exp /= 2; base = base * base }
\*   acc * base
RECURSIVE I32PowLoop(_, _, _)
I32PowLoop(base, exp, acc) ==
  IF exp <= 1 THEN I32Mul(acc, base)
  ELSE I32PowLoop(I32Mul(base, base), exp \div 2,
                  IF exp % 2 = 1 THEN I32Mul(acc, base) ELSE acc)

\* 2_i32.pow(n)
I32Pow2(n) == IF n = 0 THEN I32(1) ELSE I32PowLoop(I32(2), n, I32(1))

\* a + b on i32, for b > 0
I32Add(a, b) == IF a > I32Max - b THEN Overflow ELSE I32(a + b)

\* what an operation that does not fit does: with overflow checks (debug) it
\* panics, without (release) it wraps
Builds == {"debug", "release"}
Unfit(build) == IF build = "debug" THEN "panic" ELSE "wrap"

\* Rust's % on i32: the remainder takes the sign of the dividend
RustRem(a, b) == IF a >= 0 THEN a % b ELSE -((-a) % b)

\* let max_tile: i32 = 2_i32.pow(bounds.zoom.into());
MaxTile(zoom) == Pow2(zoom)

\* let tile_x = (x + max_tile) % max_tile;
TileX(x, max_tile) == RustRem(x + max_tile, max_tile)

\* let tile_y = (y + max_tile) % max_tile;
TileY(y, max_tile) == RustRem(y + max_tile, max_tile)

\* url_template.replace("{z}", ..).replace("{x}", ..).replace("{y}", ..):
\* the URL is the template with the three numbers in it
TileUrl(zoom, x, y) ==
  <<zoom, TileX(x, MaxTile(zoom)), TileY(y, MaxTile(zoom))>>

\* (x_min..x_max) flat-mapped over (y_min..y_max): x ascending, y ascending in x
TileList(b) ==
  LET nx == b.x_max - b.x_min
      ny == b.y_max - b.y_min
  IN  [k \in 1..(nx * ny) |->
         LET x == b.x_min + ((k - 1) \div ny)
             y == b.y_min + ((k - 1) % ny)
         IN  [x |-> x, y |-> y, url |-> TileUrl(b.zoom, x, y)]]

\* ------------------------------------------------------ the view resolver
\* BoundsBuilder::build(&self.tools): whether a zoom can be had at all
Resolvable(c, ts) == c.zoom.some \/ Len(ts) > 0

\* the windows of zoom levels zs whose corner x_min, y_min lies within coord
\* tiles of tile (0, 0): x_min..x_max by y_min..y_max tiles, the pixel size as
\* configured
Windows(zs, coord, spans, w, h) ==
  { [set |-> TRUE, zoom |-> z, x_min |-> x, x_max |-> x + s[1],
     y_min |-> y, y_max |-> y + s[2], width |-> w, height |-> h] :
      z \in zs, x \in (-coord)..coord, y \in (-coord)..coord, s \in spans }

Spans == { s \in (1..MaxTiles) \X (1..MaxTiles) : s[1] * s[2] <= MaxTiles }

\* BoundsBuilder::build: the explicit zoom, or one inferred from the tools;
\* the windows rendered have their corner at tile (0, 0)
BoundsBuild(c, ts) ==
  Windows(IF c.zoom.some THEN {c.zoom.v} ELSE 0..MaxZoom, 0, Spans,
          c.width, c.height)

\* PixmapNew without the zero check
PixmapNewAnySize(w, h) == w >= 0 /\ h >= 0

\* Pixmap::new(width, height): None for a zero dimension
PixmapNew(w, h) == w > 0 /\ h > 0

\* ------------------------------------------------------------ the fetch
\* Operation with the decode failure wrapped like the transport error
OperationOneErrorKind(url, resp) ==
  IF resp.transport \/ ~resp.png THEN ErrTile("TileError", url)
  ELSE OkTile([url |-> url, status |-> resp.status])

\* the closure handed to retry::retry: GET, bytes, decode_png
Operation(url, resp) ==
  IF resp.transport THEN ErrTile("TileError", url)
  ELSE IF ~resp.png THEN ErrTile("PngDecodingError", NoUrl)
  ELSE OkTile([url |-> url, status |-> resp.status])

\* HasDelay with the first try counted among the delays
HasDelayFirstCounted(t) == t < RetryDelays

\* retry::retry pulls the next delay after a failed try: try number t has
\* used up t - 1 of the RetryDelays delays
HasDelay(t) == t - 1 < RetryDelays

\* NextTry that starts over when the delays run low
NextTryStartsOver(t) == IF t >= RetryDelays THEN 1 ELSE t + 1

\* retry::retry after a slept delay: current_try += 1
NextTry(t) == t + 1

\* CacheInsert that keeps the entry a URL already has
CacheInsertIfAbsent(c, url, pix) ==
  [u \in DOMAIN c \cup {url} |-> IF u \in DOMAIN c THEN c[u] ELSE pix]

\* CacheInsert that starts the map afresh
CacheInsertAlone(c, url, pix) == [u \in {url} |-> pix]

\* CacheInsert that loses the pixmap
CacheInsertDropped(c, url, pix) == c

\* cache.insert(url, pixmap): DashMap::insert replaces the entry
CacheInsert(c, url, pix) ==
  [u \in DOMAIN c \cup {url} |-> IF u = url THEN pix ELSE c[u]]

\* CacheHit that finds nothing
CacheHitNever(c, url) == FALSE

\* cache.get(&url)
CacheHit(c, url) == url \in DOMAIN c

\* RequestBuilder::try_new(Method::GET, &url) .. send: the request log tells a
\* URL requested once from one requested again
CountGet(g, url) ==
  [u \in DOMAIN g \cup {url} |->
     IF u # url THEN g[u]
     ELSE IF u \notin DOMAIN g THEN "once" ELSE "again"]

\* the URLs a tile list holds more than once
Duplicated(ts) ==
  { ts[i].url : i \in { k \in DOMAIN ts : \E j \in DOMAIN ts : j # k /\ ts[j].url = ts[k].url } }

\* --------------------------------------------------------- the compositor
TileEvent(t, p) == [kind |-> "tile", x |-> t.x, y |-> t.y, pix |-> p, tool |-> ""]
ToolEvent(k)    == [kind |-> "tool", x |-> 0, y |-> 0, pix |-> NoPixmap, tool |-> k]

\* Failed that sees no error
FailedIgnored(imgs) == { i \in DOMAIN imgs : FALSE }

\* the tiles whose result is an Err
Failed(imgs) == { i \in DOMAIN imgs : imgs[i].st = "err" }
\* Min that takes the other end
MinFromEnd(S) == CHOOSE m \in S : \A n \in S : m >= n

\* the first of the indices S, as the zip of the blit loop meets them
Min(S) == CHOOSE m \in S : \A n \in S : m <= n

\* Blitted with the results taken from the far end of the list
BlittedBackwards(ts, imgs) ==
  LET n == IF Failed(imgs) = {} THEN Len(ts) ELSE Min(Failed(imgs)) - 1
  IN  [k \in 1..n |-> TileEvent(ts[k], imgs[n + 1 - k].pix)]

\* for (tile, pixmap) in tiles.iter().zip(tile_images): draw_pixmap(.., pixmap?, ..)
\* the tiles blitted before the loop ends, at the end of the list or at `?`
Blitted(ts, imgs) ==
  LET n == IF Failed(imgs) = {} THEN Len(ts) ELSE Min(Failed(imgs)) - 1
  IN  [k \in 1..n |-> TileEvent(ts[k], imgs[k].pix)]

\* ToolsDrawn back to front
ToolsDrawnReversed(ts) == [k \in 1..Len(ts) |-> ToolEvent(ts[Len(ts) + 1 - k])]

\* for tool in self.tools.iter() { tool.draw(&bounds, image.as_mut()) }
ToolsDrawn(ts) == [k \in 1..Len(ts) |-> ToolEvent(ts[k])]

\* ------------------------------------------------------------------- Init
NoCalc == [done |-> FALSE, zoom |-> 0, index |-> 0, pow |-> "", add |-> ""]

Idle(n) == [i \in 1..n |-> "queued"]

Init ==
  /\ cfg \in [zoom : {NoneZoom} \cup { SomeZoom(z) : z \in 0..MaxZoom },
              width : Sizes, height : Sizes]
  /\ tools = <<>>
  /\ tile_cache = <<>>
  /\ pc = "idle"
  /\ bounds = NoBounds
  /\ tiles = <<>>
  /\ wpc = <<>>
  /\ tries = <<>>
  /\ tile_images = <<>>
  /\ image = <<>>
  /\ result = NoResult
  /\ renders = 0
  /\ gets = <<>>
  /\ last_resp = <<>>
  /\ dup_urls = {}
  /\ server \in {Reliable, Flaky, Responses}
  /\ calls \in 1..MaxRenders
  /\ prev = [kind |-> "none", bounds |-> NoBounds]
  /\ calc = NoCalc

\* ---------------------------------------------------------------- actions
\* add_tool: self.tools.push(Box::new(tool))
AddTool(k) ==
  /\ pc = "idle"
  /\ Len(tools) < MaxTools
  /\ tools' = Append(tools, k)
  /\ UNCHANGED <<cfg, tile_cache, pc, bounds, tiles, wpc, tries, tile_images,
                 image, result, renders, gets, last_resp, dup_urls, server, calls, prev, calc>>

\* render, when the builder has no zoom and no tool to infer one from and
\* build does not return: build yields a Bounds, not a Result, so the only
\* way not to return one is to unwind
RenderPanics ==
  /\ pc = "idle"
  /\ renders < calls
  /\ ~Resolvable(cfg, tools)
  /\ renders' = renders + 1
  /\ result' = Panicked
  /\ bounds' = NoBounds
  /\ tiles' = <<>>
  /\ wpc' = <<>>
  /\ tries' = <<>>
  /\ tile_images' = <<>>
  /\ last_resp' = <<>>
  /\ image' = <<>>
  /\ prev' = [kind |-> result.kind, bounds |-> bounds]
  /\ UNCHANGED <<cfg, tools, tile_cache, pc, gets, dup_urls, server, calls, calc>>

\* render up to the par_iter: build the bounds, allocate the canvas, list the
\* tiles with their URLs.  b is whatever Bounds build returns, also when the
\* builder has no zoom and no tool to infer one from
RenderStart(b) ==
  /\ pc = "idle"
  /\ renders < calls
  /\ renders' = renders + 1
  /\ bounds' = b
  /\ IF PixmapNew(b.width, b.height)
       THEN /\ tiles' = TileList(b)
            /\ last_resp' = [i \in DOMAIN TileList(b) |-> NoResponse]
            /\ wpc' = Idle(Len(TileList(b)))
            /\ tries' = [i \in DOMAIN TileList(b) |-> 0]
            /\ tile_images' = [i \in DOMAIN TileList(b) |-> Pending]
            /\ dup_urls' = dup_urls \cup Duplicated(TileList(b))
            /\ result' = Running
            /\ pc' = "acquire"
       ELSE /\ tiles' = <<>>
            /\ wpc' = <<>>
            /\ tries' = <<>>
            /\ tile_images' = <<>>
            /\ last_resp' = <<>>
            /\ result' = ErrResult("InvalidSize", NoUrl)
            /\ UNCHANGED <<pc, dup_urls>>
  /\ image' = <<>>
  /\ prev' = [kind |-> result.kind, bounds |-> bounds]
  /\ UNCHANGED <<cfg, tools, tile_cache, gets, server, calls, calc>>

\* a pool thread takes tile i: cache.get(&url), a clone on a hit, else the
\* first try of retry::retry is due
Lookup(i) ==
  /\ pc = "acquire"
  /\ wpc[i] = "queued"
  /\ Cardinality({ j \in DOMAIN wpc : wpc[j] = "retry" }) < NumThreads
  /\ IF CacheHit(tile_cache, tiles[i].url)
       THEN /\ tile_images' = [tile_images EXCEPT ![i] = OkTile(tile_cache[tiles[i].url])]
            /\ wpc' = [wpc EXCEPT ![i] = "done"]
            /\ UNCHANGED tries
       ELSE /\ wpc' = [wpc EXCEPT ![i] = "retry"]
            /\ tries' = [tries EXCEPT ![i] = 1]
            /\ UNCHANGED tile_images
  /\ UNCHANGED <<cfg, tools, tile_cache, pc, bounds, tiles, image, result,
                 renders, gets, last_resp, dup_urls, server, calls, prev, calc>>

\* one try of the operation for tile i, the server answering resp: on Ok the
\* pixmap is inserted and returned; on Err the next delay is slept, or, with
\* the delays used up, the error is the tile's result (.map_err(|e| e.error)
\* keeps the error and drops the try count)
Attempt(i, resp) ==
  /\ pc = "acquire"
  /\ wpc[i] = "retry"
  /\ gets' = CountGet(gets, tiles[i].url)
  /\ LET r == Operation(tiles[i].url, resp) IN
       IF r.st = "ok"
         THEN /\ tile_cache' = CacheInsert(tile_cache, tiles[i].url, r.pix)
              /\ tile_images' = [tile_images EXCEPT ![i] = r]
              /\ last_resp' = [last_resp EXCEPT ![i] = resp]
              /\ wpc' = [wpc EXCEPT ![i] = "done"]
              /\ tries' = [tries EXCEPT ![i] = 0]
         ELSE IF HasDelay(tries[i])
           THEN /\ tries' = [tries EXCEPT ![i] = NextTry(@)]
                /\ UNCHANGED <<tile_cache, tile_images, wpc, last_resp>>
           ELSE /\ tile_images' = [tile_images EXCEPT ![i] = r]
                /\ last_resp' = [last_resp EXCEPT ![i] = resp]
                /\ wpc' = [wpc EXCEPT ![i] = "done"]
                /\ tries' = [tries EXCEPT ![i] = 0]
                /\ UNCHANGED tile_cache
  /\ UNCHANGED <<cfg, tools, pc, bounds, tiles, image, result, renders, dup_urls,
                 server, calls, prev, calc>>

\* AllDone that stops waiting once a tile of the list is through
AllDoneFirst(w) == w[1] = "done" \/ w[Len(w)] = "done"

\* AllDone that is content with one finished tile
AllDoneAny(w) == \E i \in DOMAIN w : w[i] = "done"

\* .collect() of the indexed par_iter: every item has been mapped
AllDone(w) == \A i \in DOMAIN w : w[i] = "done"

\* thread_pool.install(..) returns: collect() has every tile's result
Join ==
  /\ pc = "acquire"
  /\ AllDone(wpc)
  /\ pc' = "blit"
  /\ UNCHANGED <<cfg, tools, tile_cache, bounds, tiles, wpc, tries, tile_images,
                 image, result, renders, gets, last_resp, dup_urls, server, calls, prev, calc>>

\* the blit loop of draw_base_layer: `pixmap?` returns the first Err in list
\* order, and render's `?` passes it on, dropping the canvas; the tile list
\* and the tile results are locals of draw_base_layer and end with it
BlitTiles ==
  /\ pc = "blit"
  /\ IF Failed(tile_images) = {}
       THEN /\ image' = image \o Blitted(tiles, tile_images)
            /\ pc' = "tools"
            /\ UNCHANGED result
       ELSE /\ image' = <<>>
            /\ pc' = "idle"
            /\ result' = LET f == tile_images[Min(Failed(tile_images))]
                         IN  ErrResult(f.err, f.url)
  /\ tiles' = <<>>
  /\ wpc' = <<>>
  /\ tries' = <<>>
  /\ tile_images' = <<>>
  /\ last_resp' = <<>>
  /\ UNCHANGED <<cfg, tools, tile_cache, bounds, renders, gets, dup_urls,
                 server, calls, prev, calc>>

\* the tool loop of render, then Ok(image)
DrawTools ==
  /\ pc = "tools"
  /\ result' = OkResult(image \o ToolsDrawn(tools))
  /\ image' = <<>>
  /\ pc' = "idle"
  /\ UNCHANGED <<cfg, tools, tile_cache, bounds, tiles, wpc, tries, tile_images,
                 renders, gets, last_resp, dup_urls, server, calls, prev, calc>>

Next ==
  \/ \E k \in ToolKinds : AddTool(k)
  \/ RenderPanics
  \/ \E b \in BoundsBuild(cfg, tools) : RenderStart(b)
  \/ \E i \in DOMAIN tiles : Lookup(i)
  \/ \E i \in DOMAIN tiles, resp \in server : Attempt(i, resp)
  \/ Join
  \/ BlitTiles
  \/ DrawTools

Spec == Init /\ [][Next]_vars

\* one render call against a server that can fail
InitOne == Init /\ calls = 1 /\ server = Responses
SpecOne == InitOne /\ [][Next]_vars

\* render calls one after the other against a server that never fails
InitReuse == Init /\ server = Reliable
SpecReuse == InitReuse /\ [][Next]_vars

\* ------------------------------------------------ the tile list on its own
\* the windows the tile list is computed for: at zoom z, 2^z + 1 tiles wide,
\* so that x and x + 2^z are both in the range, and one tile high
UrlWindows ==
  UNION { Windows({z}, UrlCoord, {<<Pow2(z) + 1, 1>>}, DefaultSize, DefaultSize) :
            z \in 0..MaxZoom }

InitUrl ==
  /\ Init
  /\ cfg = [zoom |-> NoneZoom, width |-> DefaultSize, height |-> DefaultSize]
  /\ server = Reliable
  /\ calls = 1

\* the first statement of draw_base_layer on its own: the tile list of a window
ListTiles(b) ==
  /\ pc = "idle"
  /\ renders = 0
  /\ bounds = NoBounds
  /\ bounds' = b
  /\ tiles' = TileList(b)
  /\ pc' = "listed"
  /\ UNCHANGED <<cfg, tools, tile_cache, wpc, tries, tile_images, image, result,
                 renders, gets, last_resp, dup_urls, server, calls, prev, calc>>

NextUrl == \E b \in UrlWindows : ListTiles(b)

SpecUrl == InitUrl /\ [][NextUrl]_vars

\* ------------------------------------- render calls that can fail, in a row
\* a map built with a zoom and a size, no tool added, rendered again and again
\* against a server that can fail to answer
InitAgain ==
  /\ Init
  /\ cfg.zoom.some
  /\ cfg.width = DefaultSize
  /\ cfg.height = DefaultSize
  /\ server = Flaky

NextAgain ==
  \/ \E b \in BoundsBuild(cfg, tools) : RenderStart(b)
  \/ \E i \in DOMAIN tiles : Lookup(i)
  \/ \E i \in DOMAIN tiles, resp \in server : Attempt(i, resp)
  \/ Join
  \/ BlitTiles
  \/ DrawTools

SpecAgain == InitAgain /\ [][NextAgain]_vars

\* ------------------------------------------ one render of a window of 2 x 2
\* the windows of two columns of two tiles, at the deepest zoom
GridWindows == Windows({MaxZoom}, 0, {<<2, 2>>}, DefaultSize, DefaultSize)

InitGrid ==
  /\ Init
  /\ cfg = [zoom |-> SomeZoom(MaxZoom), width |-> DefaultSize, height |-> DefaultSize]
  /\ server = Responses
  /\ calls = 1

NextGrid ==
  \/ \E b \in GridWindows : RenderStart(b)
  \/ \E i \in DOMAIN tiles : Lookup(i)
  \/ \E i \in DOMAIN tiles, resp \in server : Attempt(i, resp)
  \/ Join
  \/ BlitTiles
  \/ DrawTools

SpecGrid == InitGrid /\ [][NextGrid]_vars

\* the steps of a render call under way: the pool's threads run, a GET comes
\* back, the calling thread goes on after the join
RenderSteps ==
  \/ \E i \in DOMAIN tiles : Lookup(i)
  \/ \E i \in DOMAIN tiles, resp \in server : Attempt(i, resp)
  \/ Join
  \/ BlitTiles
  \/ DrawTools

\* the render of the 2 x 2 window with threads that are not held up for ever
SpecLive == InitGrid /\ [][NextGrid]_vars /\ WF_vars(RenderSteps)


\* ------------------------------------------- the arithmetic of the tile URL
\* tile indices of a view at zoom z: the first and the last tile of the world,
\* and one past either end, where the world wraps
Indexes(z) ==
  LET m == I32Pow2(z)
  IN  IF m.ok THEN {-1, 0, m.v - 1, m.v} ELSE {-1, 0}

InitZoom ==
  /\ Init
  /\ cfg = [zoom |-> NoneZoom, width |-> DefaultSize, height |-> DefaultSize]
  /\ server = Reliable
  /\ calls = 1

\* max_tile = 2_i32.pow(zoom) and index + max_tile, for a zoom of the builder
\* (any u8) and a tile index, in a build with or without overflow checks
MaxTileI32(z, index, build) ==
  /\ pc = "idle"
  /\ ~calc.done
  /\ LET m == I32Pow2(z)
         a == IF m.ok THEN I32Add(index, m.v) ELSE Overflow
     IN  calc' = [done  |-> TRUE, zoom |-> z, index |-> index,
                  pow   |-> IF m.ok THEN "ok" ELSE Unfit(build),
                  add   |-> IF ~m.ok THEN "none"
                            ELSE IF a.ok THEN "ok" ELSE Unfit(build)]
  /\ UNCHANGED <<cfg, tools, tile_cache, pc, bounds, tiles, wpc, tries,
                 tile_images, image, result, renders, gets, last_resp,
                 dup_urls, server, calls, prev>>

NextZoom ==
  \E z \in 0..U8Max, build \in Builds : \E index \in Indexes(z) :
    MaxTileI32(z, index, build)

SpecZoom == InitZoom /\ [][NextZoom]_vars

\* ================================================================ claims
TileErrors == {"TileError", "PngDecodingError"}
Exhausted(i) == wpc[i] = "done" /\ tile_images[i].st = "err"

\* tile i's retry loop ends in this step with the error as the tile's result
GivesUp(i) ==
  /\ pc = "acquire" /\ pc' = "acquire"
  /\ wpc[i] = "retry" /\ wpc'[i] = "done"
  /\ tile_images'[i].st = "err"

C3_OneGetPerUrl ==
  server = Reliable => \A u \in DOMAIN gets : gets[u] = "once"

\* C3 (amended): while every GET succeeds at once, a URL that no render's tile
\* list held twice is requested at most once over the render calls made so far
C3_OneGetPerUndupUrl ==
  server = Reliable => \A u \in DOMAIN gets : u \notin dup_urls => gets[u] = "once"

\* the second render found every tile in the cache
C3_Witness ==
  /\ renders = 2
  /\ pc = "blit"
  /\ server = Reliable
  /\ \A i \in DOMAIN tiles :
       /\ tile_images[i].st = "ok"
       /\ last_resp[i] = NoResponse
       /\ gets[tiles[i].url] = "once"

\* C4 (as stated): the tiles (x, y) and (x + 2^z, y) of a tile list have the
\* same URL
C4_WrapSameUrl ==
  \A i, j \in DOMAIN tiles :
    (tiles[j].x = tiles[i].x + Pow2(bounds.zoom) /\ tiles[j].y = tiles[i].y)
      => tiles[j].url = tiles[i].url

\* C5 (as stated): a render with no zoom and no tool returns MissingZoom, no
\* GET has been made and the cache is as it was
C5_MissingZoom ==
  (renders > 0 /\ ~cfg.zoom.some /\ tools = <<>>) =>
    (result.kind = "MissingZoom" /\ gets = <<>> /\ tile_cache = <<>>)

\* C6: a render call whose resolved width or height is zero returns
\* InvalidSize in the step that resolves the bounds: no worker starts, no GET
\* is made and the cache is unchanged
C6_InvalidSizeFirst ==
  [][ (renders' = renders + 1 /\ bounds'.set /\ (bounds'.width = 0 \/ bounds'.height = 0)) =>
        /\ result'.kind = "InvalidSize"
        /\ pc' = "idle"
        /\ tiles' = <<>>
        /\ tile_cache' = tile_cache
        /\ gets' = gets ]_vars

C6_Witness ==
  result.kind = "InvalidSize" /\ bounds.set /\ bounds.width = 0 /\ renders = 1

\* C7: when the tool loop starts the canvas holds one blit per tile of the
\* window and nothing else, and the image returned is that canvas followed by
\* one draw per tool, in the order of the add_tool calls
C7_TilesThenToolsInOrder ==
  [][ (pc = "tools" /\ pc' # "tools") =>
        LET n == (bounds.x_max - bounds.x_min) * (bounds.y_max - bounds.y_min)
            img == result'.image
        IN  /\ result'.kind = "Ok"
            /\ Len(image) = n
            /\ \A k \in 1..n : image[k].kind = "tile"
            /\ \A x \in bounds.x_min..(bounds.x_max - 1), y \in bounds.y_min..(bounds.y_max - 1) :
                 \E k \in 1..n : image[k].x = x /\ image[k].y = y
            /\ Len(img) = n + Len(tools)
            /\ \A k \in 1..n : img[k] = image[k]
            /\ \A k \in 1..Len(tools) :
                 img[n + k].kind = "tool" /\ img[n + k].tool = tools[k] ]_vars

C7_Witness ==
  /\ result.kind = "Ok"
  /\ Len(result.image) = 4
  /\ result.image[1].kind = "tile"
  /\ result.image[2].kind = "tile"
  /\ result.image[3].tool = "A"
  /\ result.image[4].tool = "B"

\* C8: when a tile's result is an Err, the render call returns an error in
\* the step after the join: the tool loop is not entered, the canvas is
\* dropped and the result holds no image
C8_NoPartialMap ==
  [][ /\ (pc = "blit" /\ \E i \in DOMAIN tile_images : tile_images[i].st = "err") =>
           /\ pc' = "idle"
           /\ result'.kind \in TileErrors
           /\ result'.image = <<>>
           /\ image' = <<>>
      /\ result'.kind # "Ok" => result'.image = <<>>
      /\ \A k \in DOMAIN image' : image'[k].kind = "tile" ]_vars

\* one tile fetched and cached, another failed, a tool waiting to be drawn
C8_Witness ==
  /\ result.kind \in TileErrors
  /\ pc = "idle"
  /\ tile_cache # <<>>
  /\ Len(tools) > 0

\* C9 (as stated): the y of a tile's URL is the tile's y index
C9_YAsComputed ==
  \A i \in DOMAIN tiles : tiles[i].url[3] = tiles[i].y

\* C10 (as stated): the body of a response with a non-success status is never
\* a tile's result nor in the cache
C10_StatusChecked ==
  /\ \A i \in DOMAIN tiles :
       (wpc[i] = "done" /\ ~last_resp[i].transport /\ last_resp[i].status = 404)
         => tile_images[i].st # "ok"
  /\ \A u \in DOMAIN tile_cache : tile_cache[u].status # 404


\* tile i's worker gets its pixmap from the server in this step
Fetched(i) ==
  /\ pc = "acquire"
  /\ wpc[i] = "retry" /\ wpc'[i] = "done"
  /\ tile_images'[i].st = "ok"

\* tile i has the pixmap of a fetch of its own as its result
FetchedOk(i) ==
  wpc[i] = "done" /\ tile_images[i].st = "ok" /\ last_resp[i] # NoResponse

\* C11: the cache keeps no worker from fetching a URL another worker fetches:
\* a worker that missed can always make its try, whatever the others do; the
\* step in which its fetch succeeds touches no other worker, and after it the
\* cache holds the pixmap of this fetch under the URL, also when the URL had an
\* entry of another worker's fetch
C11_LaterInsertWins ==
  [][ \A i \in DOMAIN tiles :
        /\ (pc = "acquire" /\ wpc[i] = "retry") =>
             ENABLED (\E resp \in server : Attempt(i, resp))
        /\ Fetched(i) =>
             /\ tile_cache'[tiles[i].url] = tile_images'[i].pix
             /\ \A j \in DOMAIN tiles \ {i} :
                  wpc'[j] = wpc[j] /\ tile_images'[j] = tile_images[j] ]_vars

\* two workers of one render missed on one URL, both fetched it, got pixmaps
\* that differ, and the cache holds the one of the two that is not the first's
C11_Witness ==
  \E i, j \in DOMAIN tiles :
    /\ i # j /\ tiles[i].url = tiles[j].url
    /\ FetchedOk(i) /\ FetchedOk(j)
    /\ tile_images[i].pix # tile_images[j].pix
    /\ tile_cache[tiles[i].url] = tile_images[j].pix

\* C12: the x of every URL of the tile list lies in 0 .. 2^zoom - 1, also for a
\* window that starts left of -2^zoom
C12_XInRange ==
  \A i \in DOMAIN tiles :
    tiles[i].url[2] >= 0 /\ tiles[i].url[2] < Pow2(bounds.zoom)

\* C13: tile acquisition ends only by the join, with every tile of the list
\* having its final result, a pixmap or an error; outside of acquisition no
\* GET is sent and the cache is not written; the canvas gets its tiles only
\* after the join
C13_JoinBeforeBlit ==
  [][ /\ (pc = "acquire" /\ pc' # "acquire") =>
           /\ pc' = "blit"
           /\ \A i \in DOMAIN tiles :
                wpc[i] = "done" /\ tile_images[i].st \in {"ok", "err"}
           /\ <<tiles', tile_images', gets', tile_cache'>> =
                <<tiles, tile_images, gets, tile_cache>>
      /\ pc # "acquire" => gets' = gets /\ tile_cache' = tile_cache
      /\ Len(image') > Len(image) => pc = "blit" ]_vars

\* acquisition has returned with one tile fetched and one that used up its tries
C13_Witness ==
  /\ pc = "blit"
  /\ \E i, j \in DOMAIN tiles : FetchedOk(i) /\ Exhausted(j)

\* the tile blits among the draw calls d
TileBlits(d) == { k \in DOMAIN d : d[k].kind = "tile" }

\* C14: whichever worker finishes first, the result in a tile's place of the
\* result list is the pixmap of that tile's URL, and every blit on the canvas,
\* and on the image render returns, draws at the position of tile (x, y) the
\* pixmap that was had for the URL of (x, y)
C14_BlitAtOwnPosition ==
  /\ \A i \in DOMAIN tiles :
       tile_images[i].st = "ok" => tile_images[i].pix.url = tiles[i].url
  /\ \A d \in {image, result.image} : \A k \in TileBlits(d) :
       d[k].pix.url = TileUrl(bounds.zoom, d[k].x, d[k].y)

\* render returned an image of four tiles of four different URLs
C14_Witness ==
  /\ result.kind = "Ok"
  /\ Cardinality(TileBlits(result.image)) = 4
  /\ Cardinality({ result.image[k].pix.url : k \in TileBlits(result.image) }) = 4

\* the latest render call resolved the view window of the call before it, and
\* that call returned an image
SameViewAgain == prev.kind = "Ok" /\ prev.bounds = bounds

\* tile i has a clone of the cache's pixmap as its result, without a GET
HitOk(i) ==
  wpc[i] = "done" /\ tile_images[i].st = "ok" /\ last_resp[i] = NoResponse

\* C15: in a render call that resolves the view window of the call before it,
\* which returned an image, no step sends a GET: no worker ever starts a try,
\* and every finished tile has its pixmap from the cache
C15_SecondRenderNoGet ==
  [][ SameViewAgain' =>
        /\ gets' = gets
        /\ \A i \in DOMAIN tiles' :
             /\ wpc'[i] # "retry"
             /\ wpc'[i] = "done" =>
                  /\ tile_images'[i].st = "ok"
                  /\ last_resp'[i] = NoResponse
                  /\ tile_images'[i].pix = tile_cache'[tiles'[i].url] ]_vars

\* the second render of a window is through acquisition with every tile a hit,
\* after a first render that had to ask for a URL more than once
C15_Witness ==
  /\ SameViewAgain
  /\ renders = 2
  /\ pc = "blit"
  /\ \E i, j \in DOMAIN tiles : tiles[i].url # tiles[j].url
  /\ \A i \in DOMAIN tiles : HitOk(i)
  /\ \E u \in DOMAIN gets : gets[u] = "again"

C17_RenderReturns ==
  (result.kind = "running") ~>
    (pc = "idle" /\ result.kind \in {"Ok"} \cup TileErrors)

\* the call returned the error of a tile that never got its pixmap, with
\* another tile fetched
C17_Witness ==
  /\ pc = "idle"
  /\ result.kind \in TileErrors
  /\ tile_cache # <<>>

\* tile i comes before tile j in the enumeration: x ascending, y ascending in x
Before(i, j) ==
  \/ tiles[i].x < tiles[j].x
  \/ tiles[i].x = tiles[j].x /\ tiles[i].y < tiles[j].y

\* C18: when render returns the error of a tile, it is the error and URL of a
\* tile that used up its tries and that comes before every other such tile in
\* the enumeration, x ascending and y ascending within an x, in whatever order
\* the workers finished
C18_FirstFailedInOrder ==
  [][ (pc = "blit" /\ pc' = "idle") =>
        \E i \in DOMAIN tiles :
          /\ Exhausted(i)
          /\ result'.kind = tile_images[i].err
          /\ result'.url = tile_images[i].url
          /\ \A j \in DOMAIN tiles \ {i} : Exhausted(j) => Before(i, j) ]_vars

\* the tiles (0, 1) and (1, 0) both never got a pixmap, tile (0, 0) did, and
\* render returned the error of (0, 1)
C18_Witness ==
  /\ pc = "idle"
  /\ result.kind = "TileError"
  /\ result.url = TileUrl(bounds.zoom, 0, 1)
  /\ TileUrl(bounds.zoom, 0, 0) \in DOMAIN tile_cache
  /\ TileUrl(bounds.zoom, 1, 0) \in DOMAIN gets
  /\ TileUrl(bounds.zoom, 1, 0) \notin DOMAIN tile_cache

\* C19: a tile that used up its tries takes nothing from the others: a pixmap
\* a worker fetched is in the cache under its URL from then on; a render that
\* returns a tile's error does so with every tile of its list through and
\* leaves the cache as the workers left it; and a worker starts fetching only
\* a URL the cache has no entry for, so a later render asks the server only for
\* what is not cached
C19_FailureKeepsOthers ==
  [][ /\ \A i \in DOMAIN tiles : Fetched(i) => tiles[i].url \in DOMAIN tile_cache'
      /\ \A i \in DOMAIN tiles :
           (wpc[i] = "done" /\ tile_images[i].st = "ok") =>
              tiles[i].url \in DOMAIN tile_cache
      /\ (pc = "blit" /\ pc' = "idle") =>
           /\ \A i \in DOMAIN tiles : wpc[i] = "done"
           /\ tile_cache' = tile_cache
      /\ \A i \in DOMAIN tiles :
           (pc = "acquire" /\ wpc[i] = "queued" /\ wpc'[i] = "retry") =>
              tiles[i].url \notin DOMAIN tile_cache
      /\ gets' # gets =>
           \E i \in DOMAIN tiles :
             wpc[i] = "retry" /\ gets' = CountGet(gets, tiles[i].url) ]_vars

\* the render after one that returned a tile's error, of the same window: one
\* tile is a hit on what the failed render left in the cache and was asked of
\* the server once in all, another had to be fetched
C19_Witness ==
  /\ prev.kind \in TileErrors
  /\ prev.bounds = bounds
  /\ pc = "blit"
  /\ \E i, j \in DOMAIN tiles :
       /\ HitOk(i) /\ gets[tiles[i].url] = "once"
       /\ FetchedOk(j)

\* C20: for every zoom a u8 can hold and every tile index of the view, neither
\* 2^zoom nor index + 2^zoom passes the largest i32
C20_NoOverflow ==
  calc.done => calc.pow = "ok" /\ calc.add = "ok"

====
